---- MODULE Spec2Model ----
(***************************************************************************)
(* Model of seismiqb's SeismicCubeset (src/seismiqb/src/cubeset.py): the   *)
(* regular grid tiler make_grid, the frontier expanders make_expand_grid   *)
(* and make_expand_grid_v2, the paged generators they install on the       *)
(* dataset, and the sampler filters of modify_sampler.                     *)
(***************************************************************************)
EXTENDS Integers, Sequences, FiniteSets, TLC

(***************************************************************************)
(* Bounds of the model.                                                    *)
(***************************************************************************)
\* per-axis study of _make_axis_grid: extents 1..MaxLen
MaxLen == 7
\* strides 1..MaxStride and crop extents 1..MaxCrop of the per-axis study
MaxStride == 3
MaxCrop == 3
\* batch sizes: 1 and MaxBatch
MaxBatch == 2
\* extent of every axis of the cube "small"
GridLen == 4
\* make_grid's default batch_size
DefaultBatch == 16
\* lateral extents (ilines_len, xlines_len) of the cube "front" of the frontier clients
FrontLen == 3
\* pages a caller of the shared dataset keeps since it built its grid
MaxPulls == 2
\* extent of the sampled axis of the cube of the sampler client
SampleLen == 4
\* Horizon.FILL_VALUE: the marker of a cell with no label
FILL_VALUE == -999999

\* python's None is the empty tuple, a value v that is set is <<v>>
None == <<>>
Some(v) == <<v>>

Min(a, b) == IF a < b THEN a ELSE b

\* python's -(-n // b): the ceiling of n / b for b > 0
CeilDiv(n, b) == -((-n) \div b)

(***************************************************************************)
(* numpy / python helpers                                                  *)
(***************************************************************************)
\* np.arange(lo, hi, stride) for a positive integer stride
arange(lo, hi, stride) ==
    LET n == IF hi > lo THEN CeilDiv(hi - lo, stride) ELSE 0
    IN  [k \in 1..n |-> lo + (k - 1) * stride]

\* python's sorted() on a list of integers (stable insertion sort)
RECURSIVE InsertSorted(_, _)
InsertSorted(s, x) ==
    IF s = <<>> THEN <<x>>
    ELSE IF x < Head(s) THEN <<x>> \o s
    ELSE <<Head(s)>> \o InsertSorted(Tail(s), x)

RECURSIVE sorted(_)
sorted(s) == IF s = <<>> THEN <<>> ELSE InsertSorted(sorted(SubSeq(s, 1, Len(s) - 1)), s[Len(s)])

\* min() and max() of a non-empty sequence of integers
SetMin(S) == CHOOSE x \in S : \A y \in S : x <= y
SetMax(S) == CHOOSE x \in S : \A y \in S : x >= y
SeqMin(s) == SetMin({s[k] : k \in 1..Len(s)})
SeqMax(s) == SetMax({s[k] : k \in 1..Len(s)})

(***************************************************************************)
(* make_grid: the range checks and the per-axis tick sequence              *)
(***************************************************************************)
\* the mutant drops the edge correction
make_axis_grid_noedge(lo, hi, stride, length, crop_shape) ==
    sorted(SelectSeq(arange(lo, hi, stride), LAMBDA x : x + crop_shape < length))

make_axis_grid(lo, hi, stride, length, crop_shape) ==
    LET grid  == arange(lo, hi, stride)
        grid_ == SelectSeq(grid, LAMBDA x : x + crop_shape < length)
    IN  sorted(IF Len(grid) # Len(grid_) THEN Append(grid_, hi - crop_shape) ELSE grid_)

\* the first check of make_grid: a negative lower bound raises ValueError
LowOk(lo) == ~(lo < 0)

\* the mutant accepts a range that ends exactly at the extent
HighOk_incl(hi, length) == ~(hi > length)

\* the second check of make_grid: an upper bound at or past the extent raises ValueError
HighOk(hi, length) == ~(hi >= length)

(***************************************************************************)
(* The dataset's geometries (SeismicGeometry: ilines_len, xlines_len,      *)
(* depth).  They are loaded once and read-only to the tilers.              *)
(***************************************************************************)
cube_shape(cube_name) ==
    CASE cube_name = "small" -> <<GridLen, GridLen, GridLen>>
      [] cube_name = "ex"    -> <<100, 100, 50>>
      [] cube_name = "ex1"   -> <<101, 101, 51>>

(***************************************************************************)
(* make_grid: the grid and what the call installs                          *)
(***************************************************************************)
\* strides = strides or crop_shape
StridesOf(c) == IF c.strides = None THEN c.crop_shape ELSE c.strides

\* the range checks of make_grid, in the order of the code
RangeError(c) ==
    LET shape == cube_shape(c.cube_name)
    IN  \/ ~LowOk(c.ilines_range[1]) \/ ~LowOk(c.xlines_range[1]) \/ ~LowOk(c.h_range[1])
        \/ ~HighOk(c.ilines_range[2], shape[1])
        \/ ~HighOk(c.xlines_range[2], shape[2])
        \/ ~HighOk(c.h_range[2], shape[3])

Ticks(c, axis) ==
    LET r == CASE axis = 1 -> c.ilines_range [] axis = 2 -> c.xlines_range [] axis = 3 -> c.h_range
    IN  make_axis_grid(r[1], r[2], StridesOf(c)[axis], cube_shape(c.cube_name)[axis],
                       c.crop_shape[axis])

\* the nested loops over ilines, xlines, hs: axis 0 major, axis 2 fastest
Product(cube_name, ilines, xlines, hs) ==
    LET nx == Len(xlines)
        nh == Len(hs)
    IN  [k \in 1..(Len(ilines) * nx * nh) |->
            <<cube_name,
              ilines[((k - 1) \div (nx * nh)) + 1],
              xlines[(((k - 1) \div nh) % nx) + 1],
              hs[((k - 1) % nh) + 1]>>]

GridRows(c) == Product(c.cube_name, Ticks(c, 1), Ticks(c, 2), Ticks(c, 3))

\* the column `col` (0-based, as in grid[:, col]) of an array of rows
Column(rows, col) == [k \in 1..Len(rows) |-> rows[k][col + 1]]

\* offsets: the minimum anchor per axis
Offsets(rows) == <<SeqMin(Column(rows, 1)), SeqMin(Column(rows, 2)), SeqMin(Column(rows, 3))>>

\* rows[:, 1:].astype(int) - offsets
Shifted(rows, off) ==
    [k \in 1..Len(rows) |->
        <<rows[k][2] - off[1], rows[k][3] - off[2], rows[k][4] - off[3]>>]

GridArray(rows) == Shifted(rows, Offsets(rows))

\* (rows[i:i+batch_size] for i in range(0, len(rows), batch_size)), not yet started:
\* `pos` counts the pages the generator has yielded
NewGen(rows, batch_size) == [rows |-> rows, batch_size |-> batch_size, pos |-> 0]

\* the mutant rounds the page count down
PageCount_floor(n, batch_size) == n \div batch_size

\* - (-len(rows) // batch_size)
PageCount(n, batch_size) == CeilDiv(n, batch_size)

\* whether next(gen) has a page to yield
HasNext(gen) == gen.pos * gen.batch_size < Len(gen.rows)

\* the page next(gen) yields: rows[i:i+batch_size] with i = pos * batch_size
NextPage(gen) ==
    SubSeq(gen.rows, gen.pos * gen.batch_size + 1,
           Min((gen.pos + 1) * gen.batch_size, Len(gen.rows)))

\* the mutant restarts an exhausted generator at its first page
Advance_wrap(gen) ==
    IF gen.pos * gen.batch_size < Len(gen.rows)
    THEN [ok |-> TRUE, page |-> NextPage(gen), gen |-> [gen EXCEPT !.pos = @ + 1]]
    ELSE IF Len(gen.rows) = 0
         THEN [ok |-> FALSE, page |-> <<>>, gen |-> gen]
         ELSE [ok |-> TRUE, page |-> NextPage([gen EXCEPT !.pos = 0]),
               gen |-> [gen EXCEPT !.pos = 1]]

\* next(gen): the page and the advanced generator, or StopIteration (ok = FALSE)
Advance(gen) ==
    IF HasNext(gen)
    THEN [ok |-> TRUE, page |-> NextPage(gen), gen |-> [gen EXCEPT !.pos = @ + 1]]
    ELSE [ok |-> FALSE, page |-> <<>>, gen |-> gen]

(***************************************************************************)
(* make_expand_grid: candidate crops along the border of the known labels  *)
(***************************************************************************)
\* a scene is what a frontier call reads: the binary image of known labels (the set of
\* its cells equal to 1, in the coordinates of labels.matrix), the horizon's origin
\* (i_min, x_min) in the cube and the cells of geometry.zero_traces equal to 1

\* labels.matrix[i, x]: the height of the known surface, FILL_VALUE where unknown
matrix(sc, i, x) == IF <<i, x>> \in sc.region THEN 10 + i + x ELSE FILL_VALUE

\* concatenation of a sequence of sequences
RECURSIVE Flatten(_)
Flatten(ss) == IF ss = <<>> THEN <<>> ELSE Head(ss) \o Flatten(Tail(ss))

\* the two candidates of one border column `xline` (lines 565-582): lower side, upper side
IlineCropsAt(c, sc, xline) ==
    LET width      == c.crop_shape[1]
        line_shape == c.crop_shape[2]
        height     == c.crop_shape[3]
        non_zero   == {p[1] : p \in {q \in c.labels_img : q[2] = xline}}
    IN  IF non_zero = {} THEN <<>>
        ELSE LET lower_il0 == SetMin(non_zero)
                 upper_il0 == SetMax(non_zero)
                 lower_h   == matrix(sc, lower_il0, xline) - (height \div 2)
                 upper_h   == matrix(sc, upper_il0, xline) - (height \div 2)
                 lower_il  == lower_il0 + c.stride - line_shape
                 upper_il  == upper_il0 - c.stride
             IN  (IF lower_il + sc.i_min >= 0
                  THEN <<<<c.cube_name, lower_il + sc.i_min, xline + sc.x_min, lower_h>>>>
                  ELSE <<>>)
                 \o
                 (IF upper_il + sc.i_min + line_shape <= FrontLen
                  THEN <<<<c.cube_name, upper_il + sc.i_min, xline + sc.x_min, upper_h>>>>
                  ELSE <<>>)

\* iline_crops: the loop over range(x_min, x_max, width)
IlineCrops(c, sc) ==
    LET xs == {p[2] : p \in c.labels_img}
        cols == arange(SetMin(xs), SetMax(xs), c.crop_shape[1])
    IN  Flatten([k \in 1..Len(cols) |-> IlineCropsAt(c, sc, cols[k])])

\* the two candidates of one border row `iline` (lines 611-633)
XlineCropsAt(c, sc, iline) ==
    LET width      == c.crop_shape[1]
        line_shape == c.crop_shape[2]
        height     == c.crop_shape[3]
        non_zero   == {p[2] : p \in {q \in c.labels_img : q[1] = iline}}
        non_zero_traces == {x \in 0..(FrontLen - 1) : <<iline, x>> \notin sc.zero_traces}
        min_non_zero_trace == IF non_zero_traces # {} THEN SetMin(non_zero_traces) ELSE 0
        max_non_zero_trace == IF non_zero_traces # {} THEN SetMax(non_zero_traces) ELSE FrontLen
    IN  IF non_zero = {} THEN <<>>
        ELSE LET lower_xl0 == SetMin(non_zero)
                 upper_xl0 == SetMax(non_zero)
                 lower_h   == matrix(sc, iline, lower_xl0) - (height \div 2)
                 upper_h   == matrix(sc, iline, upper_xl0) - (height \div 2)
                 lower_xl  == lower_xl0 + c.stride - line_shape
                 upper_xl  == upper_xl0 - c.stride
             IN  (IF lower_xl + sc.x_min >= min_non_zero_trace
                  THEN <<<<c.cube_name, iline + sc.i_min, lower_xl + sc.x_min, lower_h>>>>
                  ELSE <<>>)
                 \o
                 (IF upper_xl + sc.x_min + line_shape <= max_non_zero_trace
                  THEN <<<<c.cube_name, iline + sc.i_min, upper_xl + sc.x_min, upper_h>>>>
                  ELSE <<>>)

\* xline_crops: the loop over range(il_min, il_max, width)
XlineCrops(c, sc) ==
    LET is == {p[1] : p \in c.labels_img}
        rws == arange(SetMin(is), SetMax(is), c.crop_shape[1])
    IN  Flatten([k \in 1..Len(rws) |-> XlineCropsAt(c, sc, rws[k])])

\* the info record of one scan direction: offsets, ranges, predict_shape, grid_array;
\* `ext` is the crop's extent along axes 0, 1, 2 in that direction
CropsInfo(c, rows, ext, crop_shape) ==
    LET lo == Offsets(rows)
        hi == <<SeqMax(Column(rows, 1)) + ext[1], SeqMax(Column(rows, 2)) + ext[2],
                SeqMax(Column(rows, 3)) + ext[3]>>
    IN  [grid_array |-> Shifted(rows, lo),
         predict_shape |-> <<hi[1] - lo[1], hi[2] - lo[2], hi[3] - lo[3]>>,
         range |-> <<<<lo[1], hi[1]>>, <<lo[2], hi[2]>>, <<lo[3], hi[3]>>>>,
         crop_shape |-> crop_shape,
         cube_name |-> c.cube_name]

(***************************************************************************)
(* make_expand_grid_v2: coverage-tracked candidates around the boundary    *)
(***************************************************************************)
\* horizon.matrix.shape: the horizon's matrix reaches from its origin to the cube's end
MatrixShape(sc) == <<FrontLen - sc.i_min, FrontLen - sc.x_min>>

\* horizon.boundaries_matrix: the known cells with an unknown 4-neighbour
Boundaries(sc) ==
    {p \in sc.region :
        \E d \in {<<-1, 0>>, <<1, 0>>, <<0, -1>>, <<0, 1>>} :
            <<p[1] + d[1], p[2] + d[2]>> \notin sc.region}

\* np.where(...) lists the points row by row: ascending (i, x)
RECURSIVE PointsInOrder(_)
PointsInOrder(S) ==
    IF S = {} THEN <<>>
    ELSE LET p == CHOOSE q \in S : \A r \in S : q[1] < r[1] \/ (q[1] = r[1] /\ q[2] <= r[2])
         IN  <<p>> \o PointsInOrder(S \ {p})

\* hor_matrix: horizon.matrix with `overlap` cells of FILL_VALUE on every side
\* (np.full(...), then hor_matrix[overlap:-overlap, overlap:-overlap] = horizon.matrix)
HorMatrix(sc, overlap) ==
    [a \in 0..(MatrixShape(sc)[1] + 2 * overlap - 1) |->
        [b \in 0..(MatrixShape(sc)[2] + 2 * overlap - 1) |->
            IF /\ overlap <= a /\ a < overlap + MatrixShape(sc)[1]
               /\ overlap <= b /\ b < overlap + MatrixShape(sc)[2]
            THEN matrix(sc, a - overlap, b - overlap)
            ELSE FILL_VALUE]]

\* the lateral cells of the crop anchored at (i, x) with lateral extents (len0, len1)
Footprint(i, x, len0, len1) == (i..(i + len0 - 1)) \X (x..(x + len1 - 1))

\* the placement windows of a boundary point at cube position (pi, px), in the order
\* they are tried: growth along axis 0 (lower, upper side), then along axis 1
Windows(pi, px, c) ==
    LET width      == c.crop_shape[1]
        line_shape == c.crop_shape[2]
        height     == c.crop_shape[3]
    IN  << [i |-> pi + c.stride - line_shape, x |-> px,
            shape |-> <<line_shape, width, height>>, order |-> <<1, 0, 2>>],
           [i |-> pi - c.stride, x |-> px,
            shape |-> <<line_shape, width, height>>, order |-> <<1, 0, 2>>],
           [i |-> pi, x |-> px + c.stride - line_shape,
            shape |-> <<width, line_shape, height>>, order |-> <<0, 1, 2>>],
           [i |-> pi, x |-> px - c.stride,
            shape |-> <<width, line_shape, height>>, order |-> <<0, 1, 2>>] >>

\* a window is placed when it lies inside the volume and over no empty trace
WindowValid(w, sc) ==
    /\ w.i >= 0 /\ w.i + w.shape[1] <= FrontLen
    /\ w.x >= 0 /\ w.x + w.shape[2] <= FrontLen
    /\ Footprint(w.i, w.x, w.shape[1], w.shape[2]) \cap sc.zero_traces = {}

\* find_max_overlap(point, hor_matrix, coverage, zero_traces, ...): the first window of
\* the point that can be placed, centred on the surface height at the point; its
\* footprint is marked in the coverage matrix.  No window: an empty result.
find_max_overlap(point, hor_matrix, coverage, sc, c, overlap) ==
    LET pi == point[1] + sc.i_min - overlap
        px == point[2] + sc.x_min - overlap
        ws == SelectSeq(Windows(pi, px, c), LAMBDA w : WindowValid(w, sc))
        h  == hor_matrix[point[1]][point[2]] - (c.crop_shape[3] \div 2)
    IN  IF ws = <<>>
        THEN [found |-> FALSE, new_point |-> <<>>, shape |-> <<>>, order |-> <<>>,
              coverage |-> coverage]
        ELSE [found |-> TRUE,
              new_point |-> <<<<ws[1].i, ws[1].x, h>>>>,
              shape |-> <<ws[1].shape>>,
              order |-> <<ws[1].order>>,
              coverage |-> coverage \cup
                           Footprint(ws[1].i, ws[1].x, ws[1].shape[1], ws[1].shape[2])]

\* the loop over border_points (lines 722-738): acc = [crops, shapes, orders, coverage]
RECURSIVE ExpandLoop(_, _, _, _, _, _)
ExpandLoop(points, acc, hor_matrix, sc, c, overlap) ==
    IF points = <<>> THEN acc
    ELSE LET point == Head(points)
             cell  == <<point[1] + sc.i_min - overlap, point[2] + sc.x_min - overlap>>
         IN  IF cell \in acc.coverage
             THEN ExpandLoop(Tail(points), acc, hor_matrix, sc, c, overlap)
             ELSE LET r == find_max_overlap(point, hor_matrix, acc.coverage, sc, c, overlap)
                  IN  IF ~r.found
                      THEN ExpandLoop(Tail(points), acc, hor_matrix, sc, c, overlap)
                      ELSE ExpandLoop(Tail(points),
                                      [crops |-> acc.crops \o r.new_point,
                                       shapes |-> acc.shapes \o r.shape,
                                       orders |-> acc.orders \o r.order,
                                       coverage |-> r.coverage],
                                      hor_matrix, sc, c, overlap)

\* crops, shapes and orders of one make_expand_grid_v2 run that starts from no coverage
ExpandV2(c, sc) ==
    LET overlap == c.crop_shape[2] - c.stride
        shifted == [k \in 1..Cardinality(Boundaries(sc)) |->
                       <<PointsInOrder(Boundaries(sc))[k][1] + overlap,
                         PointsInOrder(Boundaries(sc))[k][2] + overlap>>]
    IN  ExpandLoop(shifted,
                   [crops |-> <<>>, shapes |-> <<>>, orders |-> <<>>, coverage |-> {}],
                   HorMatrix(sc, overlap), sc, c, overlap)

\* np.concatenate([cube_names, crops], axis=1)
WithCubeName(cube_name, crops) ==
    [k \in 1..Len(crops) |-> <<cube_name, crops[k][1], crops[k][2], crops[k][3]>>]

(***************************************************************************)
(* modify_sampler: truncation and decimation of one axis of a sampler      *)
(***************************************************************************)
\* Coordinates of the unit interval are counted in units of 1 / Den, so that a raw
\* coordinate times the extent is a whole or a half number of cube units.
Den == 2 * SampleLen

\* np.rint(u * shape) for the coordinate u = k / Den: k / 2 rounded, halves to even
rint_half(k) ==
    LET fl == k \div 2
    IN  IF k % 2 = 0 THEN fl ELSE IF fl % 2 = 0 THEN fl ELSE fl + 1

\* round_to_array(arr, ticks) for one value: the tick nearest to it, the lower one of two
\* equally near ticks
round_to_array(v, ticks) ==
    LET T == {ticks[k] : k \in 1..Len(ticks)}
        d(t) == IF t >= v THEN t - v ELSE v - t
    IN  CHOOSE t \in T : \A t2 \in T : d(t) < d(t2) \/ (d(t) = d(t2) /\ t <= t2)

\* low, high = low or 0, high or 1; each_start = each_start or each
LowOf(a)  == IF a.low = None \/ a.low = Some(0) THEN 0 ELSE a.low[1]
HighOf(a) == IF a.high = None \/ a.high = Some(0) THEN Den ELSE a.high[1]
EachStartOf(a) ==
    IF a.each_start = None \/ a.each_start = Some(0) THEN a.each[1] ELSE a.each_start[1]

\* Sampler.truncate(low, high, expr): a draw is kept when low <= expr(p) <= high
truncate(u, low, high) == low <= u /\ u <= high

\* filter_out on the coordinate u = k / Den of the axis: rounded to cube units, snapped
\* to np.arange(each_start, shape, each), divided by shape again
filter_out(k, a) ==
    LET ticks == arange(EachStartOf(a), SampleLen, a.each[1])
    IN  round_to_array(rint_half(k), ticks) * (Den \div SampleLen)

\* the sampler modify_sampler stores in `dst`: whether it truncates, whether it decimates
BuildSampler(a) ==
    [truncated |-> (LowOf(a) # 0) \/ (HighOf(a) # Den),
     low |-> LowOf(a), high |-> HighOf(a),
     filtered |-> a.each # None,
     args |-> a]

\* the coordinate the stored sampler returns for the raw draw k / Den
SampleOf(smp, k) == IF smp.filtered THEN filter_out(k, smp.args) ELSE k

(***************************************************************************)
(* State                                                                   *)
(***************************************************************************)
VARIABLES
    client,     \* which part of the dataset the client of this run works with
    axis_in,    \* per-axis study: the arguments of one axis of make_grid
    axis_out,   \* per-axis study: status and tick sequence
    scene,      \* frontier clients: the labels, the horizon and the empty-trace mask
    smp_args,   \* sampler client: the arguments of the modify_sampler call
    dst,        \* sampler client: the attribute `dst`, None or the stored sampler
    point,      \* sampler client: the coordinate of the last drawn point, or None
    raw,        \* sampler client: the raw draw the last point was made from, or None
    self,       \* the dataset object: its generator, page-count and info attributes
    got,        \* per generator attribute: the pages pulled since it was installed
    last,       \* the last call: operation, arguments, outcome
    callers     \* per caller: the grid it built last and the pages it was handed since

vars == <<client, axis_in, axis_out, scene, smp_args, dst, point, raw, self, got, last,
          callers>>

axis_vars == <<axis_in, axis_out>>
smp_vars == <<smp_args, dst, point, raw>>
env_vars == <<client, axis_in, axis_out, scene, smp_args, dst, point, raw, callers>>

\* the attributes that hold a page function
GenAttrs == {"grid_gen", "iline_crops_gen", "xline_crops_gen",
             "crops_gen", "shapes_gen", "orders_gen"}

\* the attribute holding the page count of a page function
ItersAttr(g) ==
    CASE g = "grid_gen" -> "grid_iters"
      [] g = "iline_crops_gen" -> "iline_crops_iters"
      [] g = "xline_crops_gen" -> "xline_crops_iters"
      [] g \in {"crops_gen", "shapes_gen", "orders_gen"} -> "crops_iters"

Attrs == {"grid_gen", "grid_iters", "grid_info",
          "iline_crops_gen", "iline_crops_iters", "iline_crops_info",
          "xline_crops_gen", "xline_crops_iters", "xline_crops_info",
          "crops_gen", "shapes_gen", "orders_gen", "crops_iters", "crops_info"}

NoCall == [op |-> "none", args |-> None, result |-> "none"]
NoAxis == [lo |-> 0, hi |-> 0, stride |-> 1, length |-> 1, crop_shape |-> 1]
NoScene == [region |-> {}, i_min |-> 0, x_min |-> 0, zero_traces |-> {}]
NoSampler == [low |-> None, high |-> None, each |-> None, each_start |-> None]

\* the callers that use the one dataset object
Callers == {"A", "B"}

\* SeismicCubeset.__init__: self.grid_gen, self.grid_info, self.grid_iters = None, None, None;
\* the attributes of the frontier tilers do not exist yet, and read as None here
InitDataset ==
    /\ self = [a \in Attrs |-> None]
    /\ got = [g \in GenAttrs |-> <<>>]
    /\ last = NoCall
    /\ callers = [w \in Callers |-> [grid |-> None, pages |-> <<>>]]

(***************************************************************************)
(* Per-axis study: one axis of a make_grid call                            *)
(***************************************************************************)
AxisInputs ==
    [lo : -1..MaxLen, hi : -1..(MaxLen + 1), stride : 1..MaxStride,
     length : 1..MaxLen, crop_shape : 1..MaxCrop]

InitAxis ==
    /\ client = "axis"
    /\ axis_in \in AxisInputs
    /\ axis_out = [status |-> "pending", ticks |-> <<>>]
    /\ scene = NoScene
    /\ smp_args = NoSampler /\ dst = None /\ point = None /\ raw = None
    /\ InitDataset

\* one axis of make_grid: the two range checks, then _make_axis_grid
AxisGrid ==
    /\ client = "axis"
    /\ axis_out.status = "pending"
    /\ axis_out' =
         IF ~LowOk(axis_in.lo) \/ ~HighOk(axis_in.hi, axis_in.length)
         THEN [status |-> "ValueError", ticks |-> <<>>]
         ELSE [status |-> "ok",
               ticks |-> make_axis_grid(axis_in.lo, axis_in.hi, axis_in.stride,
                                        axis_in.length, axis_in.crop_shape)]
    /\ UNCHANGED <<client, axis_in, scene, smp_vars, self, got, last, callers>>

(***************************************************************************)
(* The grid client: make_grid and pulls of grid_gen                        *)
(***************************************************************************)
\* the ranges a call passes on one axis of the cube "small"
SmallRanges ==
    {<<0, GridLen - 1>>, <<1, GridLen - 1>>, <<-1, GridLen - 1>>,
     <<0, GridLen>>, <<1, 1>>}

BaseRange == <<0, 2>>

\* calls on the cube "small": one axis takes any range of SmallRanges, the others [0, 2)
SmallCalls ==
    {[cube_name |-> "small", crop_shape |-> <<1, 2, 2>>,
      ilines_range |-> IF a = 1 THEN r ELSE BaseRange,
      xlines_range |-> IF a = 2 THEN r ELSE BaseRange,
      h_range      |-> IF a = 3 THEN r ELSE BaseRange,
      strides |-> st, batch_size |-> bs] :
        a \in 1..3, r \in SmallRanges,
        st \in {None, <<1, 1, 1>>}, bs \in {1, MaxBatch}}

\* the scenario of the specification: ranges [0,50), [0,100), [0,50), strides 10
ExampleCall(cube) ==
    [cube_name |-> cube, crop_shape |-> <<1, 10, 10>>,
     ilines_range |-> <<0, 50>>, xlines_range |-> <<0, 100>>, h_range |-> <<0, 50>>,
     strides |-> <<10, 10, 10>>, batch_size |-> DefaultBatch]

GridCalls == SmallCalls \cup {ExampleCall("ex"), ExampleCall("ex1")}

InitGrid ==
    /\ client = "grid"
    /\ axis_in = NoAxis
    /\ axis_out = [status |-> "none", ticks |-> <<>>]
    /\ scene = NoScene
    /\ smp_args = NoSampler /\ dst = None /\ point = None /\ raw = None
    /\ InitDataset

\* make_grid(cube_name, crop_shape, ilines_range, xlines_range, h_range, strides, batch_size)
MakeGridCall(c) ==
    /\ IF RangeError(c)
       THEN \* raise ValueError('Ranges must contain in the cube.')
            /\ last' = [op |-> "make_grid", args |-> Some(c), result |-> "ValueError"]
            /\ UNCHANGED <<self, got>>
       ELSE \E rows \in {GridRows(c)} :
                IF Len(rows) = 0
                THEN \* grid is a 1-d empty array: grid[:, 1] raises IndexError
                     /\ last' = [op |-> "make_grid", args |-> Some(c), result |-> "IndexError"]
                     /\ UNCHANGED <<self, got>>
                ELSE /\ self' = [self EXCEPT
                           !.grid_gen = Some(NewGen(rows, c.batch_size)),
                           !.grid_iters = Some(PageCount(Len(rows), c.batch_size)),
                           !.grid_info = Some(
                               [grid_array |-> GridArray(rows),
                                predict_shape |-> <<c.ilines_range[2] - c.ilines_range[1],
                                                    c.xlines_range[2] - c.xlines_range[1],
                                                    c.h_range[2] - c.h_range[1]>>,
                                crop_shape |-> c.crop_shape,
                                cube_name |-> c.cube_name,
                                range |-> <<c.ilines_range, c.xlines_range, c.h_range>>])]
                     /\ got' = [got EXCEPT !.grid_gen = <<>>]
                     /\ last' = [op |-> "make_grid", args |-> Some(c), result |-> "ok"]

\* make_grid called by the single client of the grid
MakeGrid(c) ==
    /\ client = "grid"
    /\ MakeGridCall(c)
    /\ UNCHANGED env_vars

\* self.<g>(): the stored lambda: next(<generator>)
PullCall(g) ==
    /\ IF self[g] = None
       THEN \* the attribute is None or was never set: the call raises
            /\ last' = [op |-> g, args |-> None, result |-> "NotCallable"]
            /\ UNCHANGED <<self, got>>
       ELSE \E r \in {Advance(self[g][1])} :
                IF r.ok
                THEN /\ self' = [self EXCEPT ![g] = Some(r.gen)]
                     /\ got' = [got EXCEPT ![g] = Append(@, r.page)]
                     /\ last' = [op |-> g, args |-> None, result |-> "ok"]
                ELSE /\ last' = [op |-> g, args |-> None, result |-> "StopIteration"]
                     /\ UNCHANGED <<self, got>>

\* a pull by the single client of a tiler
Pull(g) ==
    /\ PullCall(g)
    /\ UNCHANGED env_vars

PullGrid == client = "grid" /\ Pull("grid_gen")

(***************************************************************************)
(* The frontier client: make_expand_grid and pulls of its two generators   *)
(***************************************************************************)
Cells == (0..(FrontLen - 1)) \X (0..(FrontLen - 1))

\* images of known labels: nothing, a filled rectangle, or two cells of a diagonal
Regions ==
    {{}} \cup
    {{p \in Cells : i1 <= p[1] /\ p[1] <= i2 /\ x1 <= p[2] /\ p[2] <= x2} :
        i1 \in 0..(FrontLen - 1), i2 \in 0..(FrontLen - 1),
        x1 \in 0..(FrontLen - 1), x2 \in 0..(FrontLen - 1)} \cup
    {{<<0, 0>>, <<2, 2>>}, {<<0, 2>>, <<2, 0>>}}

\* empty-trace masks: none, the first xline of every iline, every xline of the first iline
ZeroTraces ==
    {{}, {p \in Cells : p[2] = 0}, {p \in Cells : p[1] = 0}}

Scenes ==
    {[region |-> r, i_min |-> m, x_min |-> m, zero_traces |-> z] :
        r \in Regions, m \in 0..1, z \in ZeroTraces}

\* the horizon with origin (i_min, x_min) lies inside the cube
SceneFits(sc) ==
    \A p \in sc.region : p[1] + sc.i_min < FrontLen /\ p[2] + sc.x_min < FrontLen

ExpandCalls ==
    {[cube_name |-> "front", crop_shape |-> <<w, l, 2>>, labels_img |-> scene.region,
      stride |-> st, batch_size |-> bs] :
        w \in 1..2, l \in 2..3, st \in 1..2, bs \in {MaxBatch}}

InitExpand ==
    /\ client = "expand"
    /\ axis_in = NoAxis
    /\ axis_out = [status |-> "none", ticks |-> <<>>]
    /\ scene \in {sc \in Scenes : SceneFits(sc)}
    /\ smp_args = NoSampler /\ dst = None /\ point = None /\ raw = None
    /\ InitDataset

\* make_expand_grid(cube_name, crop_shape, labels_img, labels_src, stride, batch_size)
MakeExpandGrid(c) ==
    /\ client = "expand"
    /\ IF c.labels_img = {}
       THEN \* np.min of an empty array raises ValueError
            /\ last' = [op |-> "make_expand_grid", args |-> Some(c), result |-> "ValueError"]
            /\ UNCHANGED <<self, got>>
       ELSE \E iline_crops \in {IlineCrops(c, scene)} :
            LET width      == c.crop_shape[1]
                line_shape == c.crop_shape[2]
                height     == c.crop_shape[3]
                gen_i == [iline_crops_gen |-> Some(NewGen(iline_crops, c.batch_size)),
                          iline_crops_iters |-> Some(PageCount(Len(iline_crops), c.batch_size))]
            IN
            IF Len(iline_crops) = 0
            THEN \* the generator and its page count are stored, then
                 \* iline_crops[:, 1] raises IndexError on the 1-d empty array
                 /\ self' = [self EXCEPT !.iline_crops_gen = gen_i.iline_crops_gen,
                                         !.iline_crops_iters = gen_i.iline_crops_iters]
                 /\ got' = [got EXCEPT !.iline_crops_gen = <<>>]
                 /\ last' = [op |-> "make_expand_grid", args |-> Some(c), result |-> "IndexError"]
            ELSE \E xline_crops \in {XlineCrops(c, scene)} :
                 LET info_i == CropsInfo(c, iline_crops, <<line_shape, width, height>>,
                                         <<c.crop_shape[2], c.crop_shape[1], c.crop_shape[3]>>)
                 IN
                 IF Len(xline_crops) = 0
                 THEN \* the iline attributes are stored, then xline_crops[:, 1] raises
                      /\ self' = [self EXCEPT !.iline_crops_gen = gen_i.iline_crops_gen,
                                              !.iline_crops_iters = gen_i.iline_crops_iters,
                                              !.iline_crops_info = Some(info_i)]
                      /\ got' = [got EXCEPT !.iline_crops_gen = <<>>]
                      /\ last' = [op |-> "make_expand_grid", args |-> Some(c),
                                  result |-> "IndexError"]
                 ELSE /\ self' = [self EXCEPT
                            !.iline_crops_gen = gen_i.iline_crops_gen,
                            !.iline_crops_iters = gen_i.iline_crops_iters,
                            !.iline_crops_info = Some(info_i),
                            !.xline_crops_gen = Some(NewGen(xline_crops, c.batch_size)),
                            !.xline_crops_iters =
                                Some(PageCount(Len(xline_crops), c.batch_size)),
                            !.xline_crops_info =
                                Some(CropsInfo(c, xline_crops, <<width, line_shape, height>>,
                                               c.crop_shape))]
                      /\ got' = [got EXCEPT !.iline_crops_gen = <<>>, !.xline_crops_gen = <<>>]
                      /\ last' = [op |-> "make_expand_grid", args |-> Some(c), result |-> "ok"]
    /\ UNCHANGED env_vars

PullIlineCrops == client = "expand" /\ Pull("iline_crops_gen")
PullXlineCrops == client = "expand" /\ Pull("xline_crops_gen")

(***************************************************************************)
(* The second frontier client: make_expand_grid_v2 and its three generators *)
(***************************************************************************)
\* horizons of the second frontier client: nothing known, or a rectangle of at most
\* 2 x 2 known cells
Scenes2 ==
    {sc \in Scenes : \A p \in sc.region : \A q \in sc.region :
                        p[1] - q[1] <= 1 /\ p[2] - q[2] <= 1}

\* the coverage matrix a caller may pass (the set of its cells equal to 1): the first
\* iline is covered
SeededCoverage == {<<0, x>> : x \in 0..(FrontLen - 1)}

ExpandV2Calls ==
    {[cube_name |-> "front", crop_shape |-> <<1, l, 2>>, stride |-> st,
      batch_size |-> bs, coverage |-> cov] :
        l \in 2..3, st \in 1..2, bs \in {MaxBatch},
        cov \in {None, Some(SeededCoverage)}}

InitExpandV2 ==
    /\ client = "expand_v2"
    /\ axis_in = NoAxis
    /\ axis_out = [status |-> "none", ticks |-> <<>>]
    /\ scene \in {sc \in Scenes2 : SceneFits(sc)}
    /\ smp_args = NoSampler /\ dst = None /\ point = None /\ raw = None
    /\ InitDataset

\* make_expand_grid_v2(cube_name, crop_shape, labels_src, stride, batch_size, coverage)
MakeExpandGridV2(c) ==
    /\ client = "expand_v2"
    /\ LET overlap == c.crop_shape[2] - c.stride
       IN
       IF overlap = 0
       THEN \* hor_matrix[0:-0, 0:-0] is empty: the assignment of horizon.matrix
            \* cannot be broadcast and raises ValueError
            /\ last' = [op |-> "make_expand_grid_v2", args |-> Some(c), result |-> "ValueError"]
            /\ UNCHANGED <<self, got>>
       ELSE IF Boundaries(scene) = {}
       THEN \* border_points is a 1-d empty array: border_points[:, 0] raises IndexError
            /\ last' = [op |-> "make_expand_grid_v2", args |-> Some(c), result |-> "IndexError"]
            /\ UNCHANGED <<self, got>>
       ELSE IF c.coverage # None
       THEN \* `not coverage` on an array of several elements raises ValueError
            /\ last' = [op |-> "make_expand_grid_v2", args |-> Some(c), result |-> "ValueError"]
            /\ UNCHANGED <<self, got>>
       ELSE \E run \in {ExpandV2(c, scene)} :
            /\ self' = [self EXCEPT
                  !.crops_gen = Some(NewGen(WithCubeName(c.cube_name, run.crops),
                                            c.batch_size)),
                  !.shapes_gen = Some(NewGen(run.shapes, c.batch_size)),
                  !.orders_gen = Some(NewGen(run.orders, c.batch_size)),
                  !.crops_iters = Some(PageCount(Len(run.crops), c.batch_size)),
                  !.crops_info = Some([cube_name |-> c.cube_name])]
            /\ got' = [got EXCEPT !.crops_gen = <<>>, !.shapes_gen = <<>>,
                                  !.orders_gen = <<>>]
            /\ last' = [op |-> "make_expand_grid_v2", args |-> Some(c), result |-> "ok"]
    /\ UNCHANGED env_vars

PullCrops  == client = "expand_v2" /\ Pull("crops_gen")
PullShapes == client = "expand_v2" /\ Pull("shapes_gen")
PullOrders == client = "expand_v2" /\ Pull("orders_gen")

(***************************************************************************)
(* The sampler client: modify_sampler, then draws from the stored sampler  *)
(***************************************************************************)
\* a bound or a start that is passed: None or a value
Opt(S) == {None} \cup {Some(v) : v \in S}

\* modify_sampler(dst, mode, low, high, each, each_start) with to_cube = False and no
\* post; each and each_start leave np.arange(each_start, shape, each) non-empty
SamplerArgs ==
    {a \in [low : Opt(0..Den), high : Opt(0..Den),
            each : Opt(1..(SampleLen - 1)), each_start : Opt(0..(SampleLen - 1))] :
        /\ LowOf(a) < HighOf(a)
        /\ a.each = None => a.each_start = None}

InitSampler ==
    /\ client = "sampler"
    /\ axis_in = NoAxis
    /\ axis_out = [status |-> "none", ticks |-> <<>>]
    /\ scene = NoScene
    /\ smp_args \in SamplerArgs
    /\ dst = None
    /\ point = None
    /\ raw = None
    /\ InitDataset

\* modify_sampler(...): setattr(self, dst, sampler)
ModifySampler ==
    /\ client = "sampler"
    /\ dst' = Some(BuildSampler(smp_args))
    /\ UNCHANGED <<client, axis_vars, scene, smp_args, point, raw, self, got, last, callers>>

\* getattr(self, dst).sample(1): a raw draw k / Den of the source sampler that the
\* truncation keeps, passed through filter_out
Draw ==
    /\ client = "sampler"
    /\ dst # None
    /\ \E k \in 0..Den :
          /\ dst[1].truncated => truncate(k, dst[1].low, dst[1].high)
          /\ point' = Some(SampleOf(dst[1], k))
          /\ raw' = Some(k)
    /\ UNCHANGED <<client, axis_vars, scene, smp_args, dst, self, got, last, callers>>

(***************************************************************************)
(* Two callers of one dataset: each builds a grid, then pulls its pages    *)
(***************************************************************************)
\* the make_grid calls of the callers: two grids with different rows and page sizes
CallerCalls ==
    {[cube_name |-> "small", crop_shape |-> <<1, 2, 2>>,
      ilines_range |-> rb[1], xlines_range |-> BaseRange, h_range |-> BaseRange,
      strides |-> None, batch_size |-> rb[2]] :
        rb \in {<<BaseRange, 1>>, <<<<1, GridLen - 1>>, MaxBatch>>}}

InitCallers ==
    /\ client = "callers"
    /\ axis_in = NoAxis
    /\ axis_out = [status |-> "none", ticks |-> <<>>]
    /\ scene = NoScene
    /\ smp_args = NoSampler /\ dst = None /\ point = None /\ raw = None
    /\ InitDataset

\* caller w runs cubeset.make_grid(...): the one attribute set of the dataset is
\* overwritten; the caller remembers the grid it asked for
CallerMakeGrid(w, c) ==
    /\ client = "callers"
    /\ MakeGridCall(c)
    /\ callers' = IF last'.result = "ok"
                  THEN [callers EXCEPT ![w] = [grid |-> Some(NewGen(self'.grid_gen[1].rows,
                                                                    c.batch_size)),
                                               pages |-> <<>>]]
                  ELSE callers
    /\ UNCHANGED <<client, axis_vars, scene, smp_vars>>

\* caller w, having built a grid, runs cubeset.grid_gen() and keeps the page it is handed
CallerPull(w) ==
    /\ client = "callers"
    /\ callers[w].grid # None
    /\ Len(callers[w].pages) < MaxPulls
    /\ PullCall("grid_gen")
    /\ callers' = IF last'.result = "ok"
                  THEN [callers EXCEPT ![w].pages =
                            Append(@, got'.grid_gen[Len(got'.grid_gen)])]
                  ELSE callers
    /\ UNCHANGED <<client, axis_vars, scene, smp_vars>>

(***************************************************************************)
(* Specification                                                           *)
(***************************************************************************)
Init ==
    InitAxis \/ InitGrid \/ InitExpand \/ InitExpandV2 \/ InitSampler \/ InitCallers

Next ==
    \/ AxisGrid
    \/ \E c \in GridCalls : MakeGrid(c)
    \/ PullGrid
    \/ \E c \in ExpandCalls : MakeExpandGrid(c)
    \/ PullIlineCrops
    \/ PullXlineCrops
    \/ \E c \in ExpandV2Calls : MakeExpandGridV2(c)
    \/ PullCrops
    \/ PullShapes
    \/ PullOrders
    \/ ModifySampler
    \/ Draw
    \/ \E w \in Callers, c \in CallerCalls : CallerMakeGrid(w, c)
    \/ \E w \in Callers : CallerPull(w)

Spec == Init /\ [][Next]_vars

(***************************************************************************)
(* Properties                                                              *)
(***************************************************************************)
\* the argument record of the last call
Args == last.args[1]

\* the range a make_grid call passes on an axis (1..3)
RangeOf(c, axis) ==
    CASE axis = 1 -> c.ilines_range [] axis = 2 -> c.xlines_range [] axis = 3 -> c.h_range

\* C1: every anchor a emitted on an axis of a make_grid call that passes the range
\* checks satisfies range.low <= a and a + crop_shape <= range.high.
C1_AnchorsInsideRange ==
    (client = "axis" /\ axis_out.status = "ok") =>
        \A k \in 1..Len(axis_out.ticks) :
            /\ axis_in.lo <= axis_out.ticks[k]
            /\ axis_out.ticks[k] + axis_in.crop_shape <= axis_in.hi

\* the precondition of C2 on the axis under study
C2_Pre ==
    /\ client = "axis" /\ axis_out.status = "ok"
    /\ axis_in.lo < axis_in.hi
    /\ axis_in.stride <= axis_in.crop_shape

\* C2: with range.low < range.high and 0 < stride <= crop_shape, every integer
\* coordinate of [range.low, range.high) lies in [a, a + crop_shape) for an emitted anchor a.
C2_RangeCovered ==
    C2_Pre =>
        \A c \in axis_in.lo..(axis_in.hi - 1) :
            \E k \in 1..Len(axis_out.ticks) :
                /\ axis_out.ticks[k] <= c
                /\ c < axis_out.ticks[k] + axis_in.crop_shape

\* C2 witness: a covered range whose last natural step was dropped and replaced by the
\* closing anchor range.high - crop_shape
C2_Witness ==
    /\ C2_Pre
    /\ Len(axis_out.ticks) >= 2
    /\ \E k \in 0..MaxLen :
          /\ axis_in.lo + k * axis_in.stride < axis_in.hi
          /\ axis_in.lo + k * axis_in.stride + axis_in.crop_shape >= axis_in.length
    /\ \E k \in 1..Len(axis_out.ticks) : axis_out.ticks[k] = axis_in.hi - axis_in.crop_shape

\* a make_grid call with a range the checks must refuse
BadRange(c) ==
    \E axis \in 1..3 :
        \/ RangeOf(c, axis)[1] < 0
        \/ RangeOf(c, axis)[2] >= cube_shape(c.cube_name)[axis]

\* C3: make_grid with a negative range.low or a range.high >= the extent raises and
\* leaves grid_gen, grid_iters and grid_info as they were.
C3_BadRangeRaisesAndKeepsGrid ==
    [][(last'.op = "make_grid" /\ BadRange(last'.args[1])) =>
          /\ last'.result = "ValueError"
          /\ self'.grid_gen = self.grid_gen
          /\ self'.grid_iters = self.grid_iters
          /\ self'.grid_info = self.grid_info]_vars

\* C3 witness: a call with a bad range was refused while a partly consumed grid is installed
C3_Witness ==
    /\ last.op = "make_grid" /\ BadRange(Args)
    /\ last.result = "ValueError"
    /\ self.grid_gen # None
    /\ self.grid_gen[1].pos = 1
    /\ self.grid_iters[1] > 1

\* the distinct anchors of the installed grid on an axis (1..3)
AnchorsOn(axis) == {self.grid_gen[1].rows[k][axis + 1] : k \in 1..Len(self.grid_gen[1].rows)}

\* the natural steps range.low + k * stride below range.high of a call on an axis
NaturalSteps(c, axis) ==
    {x \in RangeOf(c, axis)[1]..(RangeOf(c, axis)[2] - 1) :
        (x - RangeOf(c, axis)[1]) % StridesOf(c)[axis] = 0}

\* C4 as stated: the example call on the volume of extent (100,100,50) produces 250 anchors.
C4_Original ==
    (last.op = "make_grid" /\ Args = ExampleCall("ex")) =>
        /\ last.result = "ok"
        /\ Len(self.grid_gen[1].rows) = 250

\* C4 amended: the example call (crop_shape (1,10,10), ranges [0,50), [0,100), [0,50),
\* strides (10,10,10)) is refused with ValueError on the volume of extent (100,100,50),
\* whose extent equals range.high on axes 1 and 2; on the volume of extent (101,101,51)
\* the same call produces exactly 5 x 10 x 5 = 250 anchors; and after every successful
\* make_grid at most one anchor per axis is not a natural step of the stride.
C4_ExampleGrid ==
    /\ (last.op = "make_grid" /\ Args = ExampleCall("ex")) => last.result = "ValueError"
    /\ (last.op = "make_grid" /\ Args = ExampleCall("ex1")) =>
          /\ last.result = "ok"
          /\ Len(self.grid_gen[1].rows) = 250
          /\ Cardinality(AnchorsOn(1)) = 5
          /\ Cardinality(AnchorsOn(2)) = 10
          /\ Cardinality(AnchorsOn(3)) = 5
    /\ (last.op = "make_grid" /\ last.result = "ok") =>
          \A axis \in 1..3 : Cardinality(AnchorsOn(axis) \ NaturalSteps(Args, axis)) <= 1

\* C4 witness: the example call succeeded on the volume of extent (101,101,51)
C4_Witness ==
    /\ last.op = "make_grid" /\ Args = ExampleCall("ex1")
    /\ last.result = "ok"
    /\ self.grid_iters = Some(16)

\* the stored page count of an installed generator attribute
ItersOf(g) == self[ItersAttr(g)][1]

\* the j-th slice of `batch_size` consecutive rows
SliceOf(rows, batch_size, j) ==
    [k \in 1..(Min(j * batch_size, Len(rows)) - (j - 1) * batch_size) |->
        rows[(j - 1) * batch_size + k]]

\* C5: for every generator installed by make_grid, make_expand_grid and
\* make_expand_grid_v2 the stored page count is ceil(total_count / batch_size), the pages
\* pulled so far are the consecutive slices of the rows in order, every page but the last
\* has batch_size rows, and all the pages together are exactly the rows.
C5_PagesAreCeilSlices ==
    \A g \in GenAttrs :
        self[g] # None =>
            LET rows == self[g][1].rows
                bs   == self[g][1].batch_size
            IN  /\ ItersOf(g) * bs >= Len(rows)
                /\ (ItersOf(g) - 1) * bs < Len(rows)
                /\ Len(got[g]) <= ItersOf(g)
                /\ \A j \in 1..Len(got[g]) :
                      /\ got[g][j] = SliceOf(rows, bs, j)
                      /\ j < ItersOf(g) => Len(got[g][j]) = bs
                /\ Len(got[g]) = ItersOf(g) => Flatten(got[g]) = rows

\* C5 witness: a generator of several pages was pulled to its end and its last page is
\* shorter than batch_size
C5_Witness ==
    \E g \in GenAttrs :
        /\ self[g] # None
        /\ ItersOf(g) >= 2
        /\ Len(got[g]) = ItersOf(g)
        /\ Len(got[g][ItersOf(g)]) < self[g][1].batch_size

\* C6 as stated: a make_grid call with an empty tile set, and a frontier call on a
\* surface with zero boundary points, return normally with a page count of 0.
C6_EmptyResultIsNotAnError ==
    /\ (/\ last.op = "make_grid" /\ ~BadRange(Args)
        /\ \E axis \in 1..3 : RangeOf(Args, axis)[1] = RangeOf(Args, axis)[2])
          => (last.result = "ok" /\ self.grid_iters = Some(0))
    /\ (last.op = "make_expand_grid" /\ Args.labels_img = {})
          => (/\ last.result = "ok"
              /\ self.iline_crops_iters = Some(0)
              /\ self.xline_crops_iters = Some(0))
    /\ (last.op = "make_expand_grid_v2" /\ Boundaries(scene) = {})
          => (last.result = "ok" /\ self.crops_iters = Some(0))

\* the last call was a make_expand_grid run in which a visited border column has labelled
\* cells and every candidate of every visited column left the volume
C7_AllIlineRejected ==
    /\ last.op = "make_expand_grid"
    /\ Args.labels_img # {}
    /\ \E p \in Args.labels_img :
          /\ p[2] < SetMax({q[2] : q \in Args.labels_img})
          /\ (p[2] - SetMin({q[2] : q \in Args.labels_img})) % Args.crop_shape[1] = 0
    /\ IlineCrops(Args, scene) = <<>>

\* C7 as stated: a frontier run in which every boundary point of a scan direction has no
\* candidate inside the volume still completes without raising.
C7_RejectedDirectionCompletes ==
    C7_AllIlineRejected => last.result = "ok"

\* the crops a completed make_expand_grid run emitted, with the lateral extents recorded
\* for their scan direction
EmittedCrops ==
    {[dir |-> "iline", k |-> k,
      i |-> self.iline_crops_gen[1].rows[k][2], x |-> self.iline_crops_gen[1].rows[k][3],
      len0 |-> Args.crop_shape[2], len1 |-> Args.crop_shape[1]] :
        k \in 1..Len(self.iline_crops_gen[1].rows)}
    \cup
    {[dir |-> "xline", k |-> k,
      i |-> self.xline_crops_gen[1].rows[k][2], x |-> self.xline_crops_gen[1].rows[k][3],
      len0 |-> Args.crop_shape[1], len1 |-> Args.crop_shape[2]] :
        k \in 1..Len(self.xline_crops_gen[1].rows)}

\* C8 as stated: after one make_expand_grid pass the lateral footprints of any two
\* distinct emitted crops are disjoint.
C8_NoLateralOverlap ==
    (last.op = "make_expand_grid" /\ last.result = "ok") =>
        \A a, b \in EmittedCrops :
            a # b => Footprint(a.i, a.x, a.len0, a.len1)
                         \cap Footprint(b.i, b.x, b.len0, b.len1) = {}

\* C9: while a generator is installed, a pull succeeds exactly when fewer than the stored
\* page count of pages were pulled since it was installed, and then returns the next
\* slice; every later pull ends with StopIteration and changes nothing; a successful
\* make_grid, make_expand_grid or make_expand_grid_v2 starts its generators again at
\* their first page.
C9_PullsEndAfterTotalPages ==
    [][/\ \A g \in GenAttrs :
             (last'.op = g /\ self[g] # None) =>
                 IF Len(got[g]) < ItersOf(g)
                 THEN /\ last'.result = "ok"
                      /\ got'[g] = Append(got[g], SliceOf(self[g][1].rows,
                                                          self[g][1].batch_size,
                                                          Len(got[g]) + 1))
                      /\ self'[g][1].rows = self[g][1].rows
                 ELSE /\ last'.result = "StopIteration"
                      /\ got'[g] = got[g]
                      /\ self' = self
       /\ (last'.op = "make_grid" /\ last'.result = "ok") => got'.grid_gen = <<>>
       /\ (last'.op = "make_expand_grid" /\ last'.result = "ok") =>
             (got'.iline_crops_gen = <<>> /\ got'.xline_crops_gen = <<>>)
       /\ (last'.op = "make_expand_grid_v2" /\ last'.result = "ok") =>
             (got'.crops_gen = <<>> /\ got'.shapes_gen = <<>> /\ got'.orders_gen = <<>>)
      ]_vars

\* C9 witness: a generator of several pages gave them all and the pull after that ended
\* with StopIteration
C9_Witness ==
    \E g \in GenAttrs :
        /\ last.op = g /\ last.result = "StopIteration"
        /\ self[g] # None
        /\ ItersOf(g) >= 2
        /\ Len(got[g]) = ItersOf(g)

\* C10 as stated: with bounds 0 <= low < high <= 1 passed to modify_sampler, every drawn
\* coordinate of the axis lies in [low, high], also when the call decimates the axis.
C10_DrawsInsideBounds ==
    (/\ client = "sampler" /\ point # None
     /\ smp_args.low # None /\ smp_args.high # None
     /\ smp_args.low[1] < smp_args.high[1])
        => (smp_args.low[1] <= point[1] /\ point[1] <= smp_args.high[1])

\* the progression each_start, each_start + each, ... below the extent that the
\* arguments of a modify_sampler call name
Progression(a) ==
    {t \in 0..(SampleLen - 1) :
        t >= a.each_start[1] /\ (t - a.each_start[1]) % a.each[1] = 0}

\* the distance, in half cube units, of the tick t from the raw draw k / Den
TickDistance(t, k) == IF 2 * t >= k THEN 2 * t - k ELSE k - 2 * t

\* C11 as stated: with each and each_start >= 0 passed to modify_sampler, every drawn
\* coordinate, in cube units, is the member of {each_start + k * each < extent} nearest
\* to the raw draw, the lower one of two equally near members; also for each_start = 0.
C11_SnapsToNearestTick ==
    (/\ client = "sampler" /\ point # None
     /\ smp_args.each # None /\ smp_args.each_start # None)
        => /\ point[1] % 2 = 0
           /\ (point[1] \div 2) \in Progression(smp_args)
           /\ \A t \in Progression(smp_args) :
                 \/ TickDistance(point[1] \div 2, raw[1]) < TickDistance(t, raw[1])
                 \/ /\ TickDistance(point[1] \div 2, raw[1]) = TickDistance(t, raw[1])
                    /\ point[1] \div 2 <= t

\* the last call was a make_expand_grid_v2 call that was handed a coverage matrix, on a
\* surface with boundary points and a padding of at least one cell
C12_SeededCall ==
    /\ last.op = "make_expand_grid_v2"
    /\ Args.coverage # None
    /\ Args.crop_shape[2] - Args.stride > 0
    /\ Boundaries(scene) # {}

\* C12 as stated, its first part: a make_expand_grid_v2 call that is handed a pre-seeded
\* coverage matrix starts from that matrix and completes normally.
C12_SeededCoverageIsUsed ==
    C12_SeededCall => last.result = "ok"

\* C13 as stated: under every interleaving of the make_grid calls and pulls of two
\* callers of one dataset, the pages a caller was handed since it built its grid are the
\* first pages of that grid, in order, and never a page of the other caller's grid.
C13_CallersOwnTheirCursor ==
    client = "callers" =>
        \A w \in Callers :
            callers[w].grid # None =>
                \A j \in 1..Len(callers[w].pages) :
                    callers[w].pages[j] = SliceOf(callers[w].grid[1].rows,
                                                  callers[w].grid[1].batch_size, j)

\* C14 as stated: the tick sequence make_grid builds on an axis is strictly increasing,
\* also when the closing anchor range.high - crop_shape was appended.
C14_TicksStrictlyIncreasing ==
    (client = "axis" /\ axis_out.status = "ok") =>
        \A k \in 1..(Len(axis_out.ticks) - 1) : axis_out.ticks[k] < axis_out.ticks[k + 1]

\* the extent of an emitted crop along the axis its scan direction extends
ScanStart(a) == IF a.dir = "iline" THEN a.i ELSE a.x
ScanSize(a)  == IF a.dir = "iline" THEN a.len0 ELSE a.len1

\* C15 as stated: every crop make_expand_grid emits lies, along its scan axis, inside the
\* volume (start >= 0 and start + crop_size <= extent) and covers no lateral position
\* without usable trace data, in both scan directions.
C15_EmittedCropsPassPlacement ==
    (last.op = "make_expand_grid" /\ last.result = "ok") =>
        \A a \in EmittedCrops :
            /\ ScanStart(a) >= 0
            /\ ScanStart(a) + ScanSize(a) <= FrontLen
            /\ Footprint(a.i, a.x, a.len0, a.len1) \cap scene.zero_traces = {}

\* the last call was a make_expand_grid_v2 call with 0 < stride <= crop_shape[1] and no
\* coverage argument, on a surface with boundary points
C16_Call ==
    /\ last.op = "make_expand_grid_v2"
    /\ 0 < Args.stride /\ Args.stride <= Args.crop_shape[2]
    /\ Args.coverage = None
    /\ Boundaries(scene) # {}

\* C16 as stated: for every stride with 0 < stride <= crop_shape[1] the run proceeds
\* normally on a height-map padded by overlap = crop_shape[1] - stride cells of FILL on
\* every side, whose cell (overlap + i, overlap + j) holds the original value at (i, j);
\* for stride = crop_shape[1] the padded map is the original one.
C16_PaddedMapForEveryStride ==
    C16_Call =>
        LET overlap == Args.crop_shape[2] - Args.stride
            padded  == HorMatrix(scene, overlap)
        IN  /\ last.result = "ok"
            /\ \A i \in 0..(MatrixShape(scene)[1] - 1), j \in 0..(MatrixShape(scene)[2] - 1) :
                  padded[overlap + i][overlap + j] = matrix(scene, i, j)
            /\ \A a \in DOMAIN padded : \A b \in DOMAIN padded[a] :
                  (\/ a < overlap \/ a >= overlap + MatrixShape(scene)[1]
                   \/ b < overlap \/ b >= overlap + MatrixShape(scene)[2])
                      => padded[a][b] = FILL_VALUE

\* C17 as stated: a make_grid, make_expand_grid or make_expand_grid_v2 call that raises
\* leaves every generator, page-count and info attribute of the dataset as it was.
C17_RaisingCallKeepsAttributes ==
    [][(/\ last'.op \in {"make_grid", "make_expand_grid", "make_expand_grid_v2"}
        /\ last'.result # "ok")
           => \A a \in Attrs : self'[a] = self[a]]_vars

====
